---------------------------- MODULE Spec2Model ----------------------------
(***************************************************************************)
(* A model of the importmap crate (src/src/lib.rs): the directory scanner  *)
(* with its filtering policy and URL fingerprinting, strip_hash, and the   *)
(* marker-delimited HTML transformation with update_html_file.             *)
(*                                                                         *)
(* Text is modelled at the level of characters: a Rust &str / String is a  *)
(* sequence of one-character strings, and a byte offset of the source is a *)
(* 0-based offset into that sequence (all text of the model is ASCII).     *)
(* Option<T> is a record [kind, val] with kind "None" or "Some"; a call    *)
(* that panics has kind "Panic".                                           *)
(***************************************************************************)
EXTENDS Integers, Sequences, FiniteSets, TLC

VARIABLES
    pc,         \* position of the driver: "idle", "scanning", "scanned", "html"
    root,       \* the directory handed to ImportMap::scan (a key of Disk)
    base_url,   \* base_url after trim_end_matches('/')
    stack,      \* the recursion of scan_fs: frames [dir, todo]
    imports,    \* the ImportMap: BTreeMap<String, String> as a key-sorted sequence of <<key, value>>
    html,       \* the text of the HTML file update_html_file reads and writes
    ret,        \* the last call on the HTML side: its argument and what it returned
    calls       \* number of update_html_file calls made on the file so far

vars == <<pc, root, base_url, stack, imports, html, ret, calls>>

---------------------------------------------------------------------------
(* Option and call results *)

None == [kind |-> "None", val |-> <<>>]
Some(v) == [kind |-> "Some", val |-> v]
Panic == [kind |-> "Panic", val |-> <<>>]

---------------------------------------------------------------------------
(* Evaluation helpers.  With evaluates x once and hands the value to F: a   *)
(* bound variable holds a value, where an operator argument or a LET        *)
(* definition is an expression that may be evaluated again at every use.    *)

With(x, F(_)) == CHOOSE v \in {F(y) : y \in {x}} : TRUE
With2(x1, x2, F(_, _)) == CHOOSE v \in {F(y1, y2) : y1 \in {x1}, y2 \in {x2}} : TRUE

SetMin(S) == CHOOSE x \in S : \A y \in S : x <= y
SetMax(S) == CHOOSE x \in S : \A y \in S : x >= y

\* the elements of a finite set of integers in ascending order
Ascending(S) == [k \in 1..Cardinality(S) |-> CHOOSE x \in S : Cardinality({y \in S : y < x}) = k - 1]

---------------------------------------------------------------------------
(* str primitives of the Rust standard library, as the source uses them *)

\* the ASCII characters in byte order (the Ord of String is byte-wise)
Ascii == <<"\t","\n","\r">> \o <<" ","!","\"","#","$","%","&","'","(",")","*","+",",","-",".","/","0","1","2","3","4","5","6","7","8","9",":",";","<","=",">","?","@","A","B","C","D","E","F","G","H","I","J","K","L","M","N","O","P","Q","R","S","T","U","V","W","X","Y","Z","[","\\","]","^","_","a","b","c","d","e","f","g","h","i","j","k","l","m","n","o","p","q","r","s","t","u","v","w","x","y","z","{","|","}","~">>

ByteOf == [c \in {Ascii[i] : i \in 1..Len(Ascii)} |-> CHOOSE i \in 1..Len(Ascii) : Ascii[i] = c]

\* s[a..b] with 0-based byte offsets
Slice(s, a, b) == SubSeq(s, a + 1, b)

\* the offsets at which pat occurs in s
Occurrences(s, pat) ==
    {i \in 0..(Len(s) - Len(pat)) : s[i + 1] = pat[1] /\ Slice(s, i, i + Len(pat)) = pat}

\* str::find / str::rfind: Option<usize>
Find(s0, pat0) ==
    With2(s0, pat0, LAMBDA s, pat :
    With(Occurrences(s, pat), LAMBDA occ :
        IF occ = {} THEN None ELSE Some(SetMin(occ))))
RFind(s0, pat0) ==
    With2(s0, pat0, LAMBDA s, pat :
    With(Occurrences(s, pat), LAMBDA occ :
        IF occ = {} THEN None ELSE Some(SetMax(occ))))

\* str::contains, str::starts_with
Contains(s0, pat0) == With2(s0, pat0, LAMBDA s, pat : Occurrences(s, pat) # {})
StartsWith(s0, pat0) ==
    With2(s0, pat0, LAMBDA s, pat : Len(s) >= Len(pat) /\ Slice(s, 0, Len(pat)) = pat)

\* str::trim_end_matches(c)
TrimEndMatches(s0, c) ==
    With(s0, LAMBDA s :
    With({i \in 1..Len(s) : s[i] # c}, LAMBDA keep :
        IF keep = {} THEN <<>> ELSE SubSeq(s, 1, SetMax(keep))))

\* str::split on one character: every piece, empty ones included
Split(s0, c) ==
    With(s0, LAMBDA s :
    With(Ascending({0, Len(s) + 1} \cup {i \in 1..Len(s) : s[i] = c}), LAMBDA cuts :
        [k \in 1..(Len(cuts) - 1) |-> SubSeq(s, cuts[k] + 1, cuts[k + 1] - 1)]))

\* str::lines: split at "\n", a final empty piece dropped, one trailing "\r" of a line stripped
StripCr(l0) ==
    With(l0, LAMBDA l : IF l # <<>> /\ l[Len(l)] = "\r" THEN SubSeq(l, 1, Len(l) - 1) ELSE l)
Lines(s0) ==
    With(Split(s0, "\n"), LAMBDA parts :
    With(IF parts[Len(parts)] = <<>> THEN SubSeq(parts, 1, Len(parts) - 1) ELSE parts, LAMBDA kept :
        [i \in 1..Len(kept) |-> StripCr(kept[i])]))

\* [String]::join(sep)
RECURSIVE Join(_, _)
Join(ss0, sep0) ==
    With2(ss0, sep0, LAMBDA ss, sep :
        IF ss = <<>> THEN <<>>
        ELSE IF Len(ss) = 1 THEN ss[1]
        ELSE ss[1] \o sep \o Join(Tail(ss), sep))

\* Ord of String: byte-wise lexicographic order
StrLess(a0, b0) ==
    With2(a0, b0, LAMBDA a, b :
    With({i \in 1..Len(a) : i <= Len(b) /\ a[i] # b[i]}, LAMBDA diff :
        IF diff = {} THEN Len(a) < Len(b)
        ELSE ByteOf[a[SetMin(diff)]] < ByteOf[b[SetMin(diff)]]))

---------------------------------------------------------------------------
(* std::path::Path on a Unix host, for the paths and URLs the crate handles *)

has_root(p) == p # <<>> /\ p[1] = "/"

\* Path::components, the root directory aside: empty and "." pieces are skipped
components(p) == SelectSeq(Split(p, "/"), LAMBDA c : c # <<>> /\ c # <<".">>)

\* Path equality compares components
PathEq(p, q) == has_root(p) = has_root(q) /\ components(p) = components(q)

\* Path::file_name: the last component, unless it is ".."
file_name(p) ==
    With(components(p), LAMBDA cs :
        IF cs = <<>> \/ cs[Len(cs)] = <<".", ".">> THEN None ELSE Some(cs[Len(cs)]))

\* std's rsplit_file_at_dot: <<before, after>> of the last "."
rsplit_file_at_dot(file0) ==
    With(file0, LAMBDA file :
    With(RFind(file, <<".">>), LAMBDA dot :
        IF file = <<".", ".">> THEN <<Some(file), None>>
        ELSE IF dot.kind = "None" THEN <<None, Some(file)>>
        ELSE IF dot.val = 0 THEN <<Some(file), None>>
        ELSE <<Some(Slice(file, 0, dot.val)), Some(Slice(file, dot.val + 1, Len(file)))>>))

\* Path::file_stem: before.or(after)
file_stem(p) ==
    With(file_name(p), LAMBDA f :
        IF f.kind = "None" THEN None
        ELSE With(rsplit_file_at_dot(f.val), LAMBDA ba :
                IF ba[1].kind = "Some" THEN ba[1] ELSE ba[2]))

\* Path::extension: before.and(after)
extension(p) ==
    With(file_name(p), LAMBDA f :
        IF f.kind = "None" THEN None
        ELSE With(rsplit_file_at_dot(f.val), LAMBDA ba :
                IF ba[1].kind = "Some" THEN ba[2] ELSE None))

\* Path::parent: the path without its final component (None for "" and "/")
parent(p0) ==
    With(p0, LAMBDA p :
    With2(components(p), TrimEndMatches(p, "/"), LAMBDA cs, t :
        IF cs = <<>> THEN None
        ELSE With(TrimEndMatches(Slice(t, 0, Len(t) - Len(cs[Len(cs)])), "/"), LAMBDA u :
                IF u = <<>> /\ has_root(p) THEN Some(<<"/">>) ELSE Some(u))))

\* PathBuf::push of a relative or absolute path
push(buf, path) ==
    IF has_root(path) THEN path
    ELSE IF buf # <<>> /\ buf[Len(buf)] # "/" THEN buf \o <<"/">> \o path
    ELSE buf \o path

\* Path::with_file_name: pop the file name if there is one, then push
with_file_name(p, name) ==
    IF file_name(p).kind = "Some" THEN push(parent(p).val, name) ELSE push(p, name)

---------------------------------------------------------------------------
(* BTreeMap<String, String>: a sequence of <<key, value>> kept in key order *)

BTreeInsertUnsorted(m, k, v) == Append(m, <<k, v>>)
BTreeInsert(m, k, v) ==
    SelectSeq(m, LAMBDA e : StrLess(e[1], k)) \o <<<<k, v>>>> \o
    SelectSeq(m, LAMBDA e : StrLess(k, e[1]))

BTreeKeys(m) == {m[i][1] : i \in 1..Len(m)}
BTreeGet(m, k) ==
    IF k \in BTreeKeys(m) THEN Some((CHOOSE e \in {m[i] : i \in 1..Len(m)} : e[1] = k)[2])
    ELSE None
BTreeRemove(m, k) == SelectSeq(m, LAMBDA e : e[1] # k)

---------------------------------------------------------------------------
(* ImportMap: constants, hashing, process_file, strip_hash *)

EXTENSIONS == <<<<"j","s">>, <<"m","j","s">>, <<"c","s","s">>>>
HASH_LEN == 8
MARKER_OPEN == <<"<","!","-","-"," ","I","M","P","O","R","T","M","A","P"," ","-","-",">">>
MARKER_CLOSE == <<"<","!","-","-"," ","/","I","M","P","O","R","T","M","A","P"," ","-","-",">">>

InExtensions(ext) == \E i \in 1..Len(EXTENSIONS) : EXTENSIONS[i] = ext

\* ImportMap::empty
empty == <<>>

(* rapidhash_v3 is a dependency of the crate: only that it is a fixed function *)
(* of the bytes is used.  A u64 is four 16-bit limbs, most significant first.  *)
RECURSIVE Mix(_, _, _)
Mix(bytes, h, mult) ==
    IF bytes = <<>> THEN h ELSE Mix(Tail(bytes), (h * mult + Head(bytes)) % 65536, mult)
rapidhash_v3(contents) ==
    <<Mix(contents, 0, 251), Mix(contents, 48879, 257), Mix(contents, 1, 31), Mix(contents, 7, 17)>>

HexDigits == <<"0","1","2","3","4","5","6","7","8","9","a","b","c","d","e","f">>
Nibbles(limb) ==
    <<HexDigits[((limb \div 4096) % 16) + 1], HexDigits[((limb \div 256) % 16) + 1],
      HexDigits[((limb \div 16) % 16) + 1], HexDigits[(limb % 16) + 1]>>

RECURSIVE StripLeadingZeros(_)
StripLeadingZeros(d) ==
    IF Len(d) > 1 /\ d[1] = "0" THEN StripLeadingZeros(Tail(d)) ELSE d
RECURSIVE PadLeft(_, _)
PadLeft(d, width) == IF Len(d) >= width THEN d ELSE PadLeft(<<"0">> \o d, width)

\* format!("{:x}", hash) and format!("{:016x}", hash)
FormatLowerHex(hash) ==
    StripLeadingZeros(Nibbles(hash[1]) \o Nibbles(hash[2]) \o Nibbles(hash[3]) \o Nibbles(hash[4]))
FormatLowerHex016(hash) == PadLeft(FormatLowerHex(hash), 16)

is_ascii_hexdigit(c) == c \in {HexDigits[i] : i \in 1..Len(HexDigits)} \cup {"A", "B", "C", "D", "E", "F"}

\* the filter without its rule for scripts at the scan root
SkippedKeepingRootScripts(path) ==
    LET e == extension(path)
        ext == IF e.kind = "Some" THEN e.val ELSE <<>>
        n == file_name(path)
        name == IF n.kind = "Some" THEN n.val ELSE <<>>
    IN \/ ~InExtensions(ext)
       \/ Contains(name, <<".","d","e","v","e","l","o","p","m","e","n","t",".">>) \/ Contains(name, <<".","d","e","v",".">>) \/ Contains(name, <<".","t","e","s","t",".">>)
       \/ StartsWith(name, <<"_">>)
       \/ \E i \in 1..Len(components(path)) : components(path)[i] = <<"t","e","s","t","s">>
       \/ file_stem(path).kind = "None"

\* the filter of process_file (lines 59-88): TRUE when the file is skipped
Skipped(path) ==
    LET e == extension(path)
        ext == IF e.kind = "Some" THEN e.val ELSE <<>>
        n == file_name(path)
        name == IF n.kind = "Some" THEN n.val ELSE <<>>
        par == parent(path)
    IN \/ ~InExtensions(ext)
       \/ ext = <<"j","s">> /\ (par.kind = "None" \/ par.val = <<>>)
       \/ Contains(name, <<".","d","e","v","e","l","o","p","m","e","n","t",".">>) \/ Contains(name, <<".","d","e","v",".">>) \/ Contains(name, <<".","t","e","s","t",".">>)
       \/ StartsWith(name, <<"_">>)
       \/ \E i \in 1..Len(components(path)) : components(path)[i] = <<"t","e","s","t","s">>
       \/ file_stem(path).kind = "None"

\* original_url and hashed_url of process_file (lines 90-107)
OriginalUrl(path, base) == base \o <<"/">> \o path
HashedUrl(path, contents, base) ==
    LET ext == extension(path).val
        stem == file_stem(path).val
        hash_hex == FormatLowerHex016(rapidhash_v3(contents))
        short_hash == Slice(hash_hex, 0, HASH_LEN)
        par == parent(path)
    IN IF par.kind = "Some" /\ par.val # <<>>
       THEN base \o <<"/">> \o par.val \o <<"/">> \o stem \o <<".">> \o short_hash \o <<".">> \o ext
       ELSE base \o <<"/">> \o stem \o <<".">> \o short_hash \o <<".">> \o ext

\* ImportMap::process_file: the map after the call
process_file(m, path, contents, base) ==
    IF Skipped(path) THEN m
    ELSE BTreeInsert(m, OriginalUrl(path, base), HashedUrl(path, contents, base))

\* strip_hash cutting the stem at its first "." instead of its last
strip_hash_first_dot(path) ==
    LET s == file_stem(path)
        e == extension(path)
    IN IF s.kind = "None" \/ e.kind = "None" THEN None
       ELSE IF ~InExtensions(e.val) THEN None
       ELSE LET dot_pos == Find(s.val, <<".">>) IN
            IF dot_pos.kind = "None" THEN None
            ELSE LET hash == Slice(s.val, dot_pos.val + 1, Len(s.val))
                     name == Slice(s.val, 0, dot_pos.val)
                 IN IF Len(hash) = HASH_LEN /\ \A i \in 1..Len(hash) : is_ascii_hexdigit(hash[i])
                    THEN Some(with_file_name(path, name \o <<".">> \o e.val))
                    ELSE None

\* ImportMap::strip_hash
strip_hash(path) ==
    LET s == file_stem(path)
        e == extension(path)
    IN IF s.kind = "None" \/ e.kind = "None" THEN None
       ELSE IF ~InExtensions(e.val) THEN None
       ELSE LET dot_pos == RFind(s.val, <<".">>) IN
            IF dot_pos.kind = "None" THEN None
            ELSE LET hash == Slice(s.val, dot_pos.val + 1, Len(s.val))
                     name == Slice(s.val, 0, dot_pos.val)
                 IN IF Len(hash) = HASH_LEN /\ \A i \in 1..Len(hash) : is_ascii_hexdigit(hash[i])
                    THEN Some(with_file_name(path, name \o <<".">> \o e.val))
                    ELSE None

---------------------------------------------------------------------------
(* The file store the scanner reads: for each scan root, its files with their *)
(* paths relative to the root and their bytes.                                *)

File(path, contents) == [path |-> path, contents |-> contents]

Disk ==
    [example |->
        {File(<<"a","p","p",".","j","s">>, <<1>>),
         File(<<"a","s","s","e","t","s","/","a","p","p",".","j","s">>, <<2>>),
         File(<<"a","s","s","e","t","s","/","a","p","p",".","d","e","v","e","l","o","p","m","e","n","t",".","j","s">>, <<3>>),
         File(<<"a","s","s","e","t","s","/","_","p","a","r","t","i","a","l",".","c","s","s">>, <<4>>),
         File(<<"a","s","s","e","t","s","/","a","p","p",".","t","e","s","t",".","j","s">>, <<5>>),
         File(<<"a","s","s","e","t","s","/","t","e","s","t","s","/","x",".","c","s","s">>, <<6>>)},
     site |->
        {File(<<"i","n","d","e","x",".","h","t","m","l">>, <<7>>),
         File(<<"m","a","i","n",".","m","j","s">>, <<8, 1>>),
         File(<<"a",".","c","s","s">>, <<9>>),
         File(<<"b",".","c","s","s">>, <<200, 17>>),
         File(<<"a","s","s","e","t","s","/","a","p","p",".","j","s">>, <<2>>),
         File(<<"a","s","s","e","t","s","/","v","e","n","d","o","r",".","m","i","n",".","j","s">>, <<11, 12, 13>>),
         File(<<"a","s","s","e","t","s","/","l","i","b",".","d","e","v",".","m","j","s">>, <<14>>)},
     css |->
        {File(<<"a",".","c","s","s">>, <<9>>),
         File(<<"b",".","c","s","s">>, <<200, 17>>),
         File(<<"_","r","e","s","e","t",".","c","s","s">>, <<15>>)},
     blank |->
        {File(<<"R","E","A","D","M","E",".","m","d">>, <<16>>),
         File(<<"s","w",".","j","s">>, <<17>>)},
     edge |->
        {File(<<"d","e","v",".","m","j","s">>, <<18>>),
         File(<<"t","e","s","t","s","/","a","p","p",".","j","s">>, <<19>>),
         File(<<"l","i","b","/",".","c","s","s">>, <<20>>),
         File(<<"l","i","b","/","t","e","s","t","s",".","c","s","s">>, <<21>>),
         File(<<"l","i","b","/","a","p","p",".","t","e","s","t","i","n","g",".","j","s">>, <<22>>),
         File(<<"l","i","b","/","A","P","P",".","J","S">>, <<23>>)}]

Roots == DOMAIN Disk
BaseUrls == {<<>>, <<"/","s","t","a","t","i","c","/">>, <<"/">>, <<"h","t","t","p","s",":","/","/","c","d","n",".","e","x","a","m","p","l","e",".","c","o","m","/","/">>}

FilePaths(r) == {f.path : f \in Disk[r]}

\* fs::read
read(r, path) == (CHOOSE f \in Disk[r] : f.path = path).contents

RECURSIVE Ancestors(_)
Ancestors(path) ==
    LET par == parent(path) IN
    IF par.kind = "None" \/ par.val = <<>> THEN {} ELSE {par.val} \cup Ancestors(par.val)

Directories(r) == UNION {Ancestors(p) : p \in FilePaths(r)}

\* Path::is_dir
is_dir(r, path) == path \in Directories(r)

\* fs::read_dir: the entries directly under dir (dir = <<>> is the root itself)
read_dir(r, dir) ==
    {e \in FilePaths(r) \cup Directories(r) : parent(e).val = dir}

---------------------------------------------------------------------------
(* ImportMap::scan and the recursion of scan_fs *)

Frame(dir, todo) == [dir |-> dir, todo |-> todo]
Top == stack[Len(stack)]
Rest == SubSeq(stack, 1, Len(stack) - 1)

NoCall == [op |-> "none", arg |-> <<>>, res |-> None, nth |-> 0, wrote |-> FALSE, returned |-> "none"]

\* ImportMap::scan(dir, base_url) up to the first call of scan_fs
Scan(r, b) ==
    /\ pc = "idle"
    /\ root' = r
    /\ base_url' = TrimEndMatches(b, "/")
    /\ imports' = empty
    /\ stack' = <<Frame(<<>>, read_dir(r, <<>>))>>
    /\ pc' = "scanning"
    /\ UNCHANGED <<html, ret, calls>>

\* scan_fs: the loop takes a directory entry that is a directory and recurses
ScanFsDir ==
    /\ pc = "scanning"
    /\ stack # <<>>
    /\ \E e \in Top.todo :
        /\ is_dir(root, e)
        /\ stack' = Rest \o <<Frame(Top.dir, Top.todo \ {e}), Frame(e, read_dir(root, e))>>
    /\ UNCHANGED <<pc, root, base_url, imports, html, ret, calls>>

\* scan_fs: the loop takes a directory entry that is a file and processes it
ScanFsFile ==
    /\ pc = "scanning"
    /\ stack # <<>>
    /\ \E e \in Top.todo :
        /\ ~is_dir(root, e)
        /\ imports' = process_file(imports, e, read(root, e), base_url)
        /\ stack' = Rest \o <<Frame(Top.dir, Top.todo \ {e})>>
    /\ UNCHANGED <<pc, root, base_url, html, ret, calls>>

\* scan_fs: the loop is over, the call returns; the outermost return ends scan
ScanFsReturn ==
    /\ pc = "scanning"
    /\ stack # <<>>
    /\ Top.todo = {}
    /\ stack' = Rest
    /\ pc' = IF Rest = <<>> THEN "scanned" ELSE "scanning"
    /\ UNCHANGED <<root, base_url, imports, html, ret, calls>>

InitScan ==
    /\ pc = "idle"
    /\ root = "blank"
    /\ base_url = <<>>
    /\ stack = <<>>
    /\ imports = empty
    /\ html = <<>>
    /\ ret = NoCall
    /\ calls = 0

NextScan ==
    \/ \E r \in Roots, b \in BaseUrls : Scan(r, b)
    \/ ScanFsDir
    \/ ScanFsFile
    \/ ScanFsReturn

SpecScan == InitScan /\ [][NextScan]_vars

---------------------------------------------------------------------------
(* The HTML transformer *)

\* serde_json's string: quoted, with the quote, the backslash and the line
\* break escaped
JsonEscapeChar(c) ==
    CASE c = "\"" -> <<"\\", "\"">>
      [] c = "\\" -> <<"\\", "\\">>
      [] c = "\n" -> <<"\\", "n">>
      [] c = "\r" -> <<"\\", "r">>
      [] c = "\t" -> <<"\\", "t">>
      [] OTHER -> <<c>>
JsonEscape(s0) == With(s0, LAMBDA s : Join([i \in 1..Len(s) |-> JsonEscapeChar(s[i])], <<>>))
JsonString(s) == <<"\"">> \o JsonEscape(s) \o <<"\"">>

\* serde_json::to_string_pretty(&json!({ "imports": js_map })), two-space indentation
to_string_pretty(js_map0) ==
    With(js_map0, LAMBDA js_map :
        IF js_map = <<>> THEN <<"{","\n"," "," ","\"","i","m","p","o","r","t","s","\"",":"," ","{","}","\n","}">>
        ELSE <<"{","\n"," "," ","\"","i","m","p","o","r","t","s","\"",":"," ","{","\n">>
             \o Join([i \in 1..Len(js_map) |->
                        <<" "," "," "," ">> \o JsonString(js_map[i][1]) \o <<":"," ">> \o JsonString(js_map[i][2])],
                     <<",","\n">>)
             \o <<"\n"," "," ","}","\n","}">>)

\* the closure of extract_href_values' filter_map: the href of one line
HrefOfLine(line0) ==
    With(line0, LAMBDA line :
    With(Find(line, <<"h","r","e","f","=","\"">>), LAMBDA d :
    With(IF d.kind = "Some" THEN d ELSE Find(line, <<"h","r","e","f","=","'">>), LAMBDA f :
        IF f.kind = "None" THEN None
        ELSE With(f.val + 6, LAMBDA href_start :
             With(Find(Slice(line, href_start, Len(line)), <<line[href_start]>>), LAMBDA href_end :
                IF href_end.kind = "None" THEN None
                ELSE Some(Slice(line, href_start, href_start + href_end.val)))))))

\* the filter and filter_map of extract_href_values over the lines
HrefsOfLines(lines0, rel0) ==
    With2(lines0, rel0, LAMBDA lines, rel :
    With([i \in 1..Len(lines) |->
            IF \/ Contains(lines[i], <<"r","e","l","=","\"">> \o rel \o <<"\"">>)
               \/ Contains(lines[i], <<"r","e","l","=","'">> \o rel \o <<"'">>)
            THEN HrefOfLine(lines[i]) ELSE None], LAMBDA hs :
        [k \in 1..Cardinality({i \in 1..Len(hs) : hs[i].kind = "Some"}) |->
            hs[Ascending({i \in 1..Len(hs) : hs[i].kind = "Some"})[k]].val]))

\* ImportMap::extract_href_values: html[start..end] panics when start > end
extract_href_values(h0, rel) ==
    With(h0, LAMBDA h :
    With2(Find(h, MARKER_OPEN), Find(h, MARKER_CLOSE), LAMBDA o, c :
    With2(IF o.kind = "Some" THEN o.val ELSE 0, IF c.kind = "Some" THEN c.val ELSE Len(h), LAMBDA start, end :
        IF start > end THEN Panic
        ELSE Some(HrefsOfLines(Lines(Slice(h, start, end)), rel)))))

\* replace_between_markers keeping html[..start_pos] instead of html[..after_open]
replace_between_markers_dropping_open(h0, content0) ==
    With2(h0, content0, LAMBDA h, content :
    With(Find(h, MARKER_OPEN), LAMBDA s :
        IF s.kind = "None" THEN None
        ELSE With2(s.val, s.val + Len(MARKER_OPEN), LAMBDA start_pos, after_open :
             With(Find(Slice(h, after_open, Len(h)), MARKER_CLOSE), LAMBDA c :
                IF c.kind = "None" THEN None
                ELSE With2(c.val + after_open, RFind(Slice(h, 0, start_pos), <<"\n">>), LAMBDA end_pos, nl :
                     With(IF nl.kind = "Some" THEN nl.val + 1 ELSE 0, LAMBDA line_start :
                     With2(Slice(h, line_start, start_pos), Lines(content), LAMBDA indent, ls :
                     With(Join([i \in 1..Len(ls) |->
                                  IF ls[i] = <<>> THEN <<>> ELSE indent \o ls[i]], <<"\n">>), LAMBDA indented :
                        Some(Slice(h, 0, start_pos) \o <<"\n">> \o indented \o <<"\n">>
                             \o indent \o Slice(h, end_pos, Len(h)))))))))))

\* ImportMap::replace_between_markers
replace_between_markers(h0, content0) ==
    With2(h0, content0, LAMBDA h, content :
    With(Find(h, MARKER_OPEN), LAMBDA s :
        IF s.kind = "None" THEN None
        ELSE With2(s.val, s.val + Len(MARKER_OPEN), LAMBDA start_pos, after_open :
             With(Find(Slice(h, after_open, Len(h)), MARKER_CLOSE), LAMBDA c :
                IF c.kind = "None" THEN None
                ELSE With2(c.val + after_open, RFind(Slice(h, 0, start_pos), <<"\n">>), LAMBDA end_pos, nl :
                     With(IF nl.kind = "Some" THEN nl.val + 1 ELSE 0, LAMBDA line_start :
                     With2(Slice(h, line_start, start_pos), Lines(content), LAMBDA indent, ls :
                     With(Join([i \in 1..Len(ls) |->
                                  IF ls[i] = <<>> THEN <<>> ELSE indent \o ls[i]], <<"\n">>), LAMBDA indented :
                        Some(Slice(h, 0, after_open) \o <<"\n">> \o indented \o <<"\n">>
                             \o indent \o Slice(h, end_pos, Len(h)))))))))))

\* the filter_map of transform_html (line 164): css.remove(&url) for each href in turn
RECURSIVE CssUrls(_, _)
CssUrls(hrefs0, css0) ==
    With2(hrefs0, css0, LAMBDA hrefs, css :
        IF hrefs = <<>> THEN <<>>
        ELSE With(BTreeGet(css, Head(hrefs)), LAMBDA v :
                IF v.kind = "Some" THEN <<v.val>> \o CssUrls(Tail(hrefs), BTreeRemove(css, Head(hrefs)))
                ELSE CssUrls(Tail(hrefs), css)))

StylesheetLink(url) == <<"<","l","i","n","k"," ","r","e","l","=","\"","s","t","y","l","e","s","h","e","e","t","\""," ","h","r","e","f","=","\"">> \o url \o <<"\"",">">>
ModulepreloadLink(url) == <<"<","l","i","n","k"," ","r","e","l","=","\"","m","o","d","u","l","e","p","r","e","l","o","a","d","\""," ","h","r","e","f","=","\"">> \o url \o <<"\"",">">>

\* lines 184-188 joining every section, the empty ones too
JoinAllSections(sections) == Join(sections, <<"\n">>)

\* lines 184-188: the non-empty sections joined by "\n"
JoinSections(sections) == Join(SelectSeq(sections, LAMBDA x : x # <<>>), <<"\n">>)

\* ImportMap::transform_html
transform_html(m0, h0) ==
    With2(m0, h0, LAMBDA m, h :
        IF m = <<>> THEN replace_between_markers(h, <<>>)
        ELSE With2(SelectSeq(m, LAMBDA e : extension(e[1]) = Some(<<"c","s","s">>)),
                   SelectSeq(m, LAMBDA e : extension(e[1]) \in {Some(<<"j","s">>), Some(<<"m","j","s">>)}), LAMBDA css, js :
             With(extract_href_values(h, <<"s","t","y","l","e","s","h","e","e","t">>), LAMBDA hrefs :
                IF hrefs.kind = "Panic" THEN Panic
                ELSE With(CssUrls(hrefs.val, css), LAMBDA css_urls :
                     With(Join([i \in 1..Len(css_urls) |-> StylesheetLink(css_urls[i])], <<"\n">>), LAMBDA stylesheets :
                     With(to_string_pretty(js), LAMBDA json :
                     With(<<"<","s","c","r","i","p","t"," ","t","y","p","e","=","\"","i","m","p","o","r","t","m","a","p","\"",">","\n">> \o json \o <<"\n","<","/","s","c","r","i","p","t",">">>, LAMBDA script :
                     With(Join([i \in 1..Len(js) |-> ModulepreloadLink(js[i][2])], <<"\n">>), LAMBDA preloads :
                     With(JoinSections(<<stylesheets, script, preloads>>), LAMBDA content :
                        replace_between_markers(h, content))))))))))

---------------------------------------------------------------------------
(* Calls on the HTML side: transform_html on the file's text and on its own *)
(* result, and update_html_file                                             *)

MaxCalls == 3

\* the import map a finished scan of root r leaves (see C7: the order of
\* traversal does not matter), by process_file over the files in path order
RECURSIVE ScanOf(_, _, _)
ScanOf(m0, files0, base) ==
    With2(m0, files0, LAMBDA m, files :
        IF files = {} THEN m
        ELSE With(CHOOSE g \in files : \A o \in files : o = g \/ StrLess(g.path, o.path), LAMBDA f :
                ScanOf(process_file(m, f.path, f.contents, base), files \ {f}, base)))

Heads ==
    {MARKER_OPEN,
     <<"<","h","e","a","d",">","\n"," "," "," "," ">> \o MARKER_OPEN,
     <<"<","h","e","a","d",">">> \o MARKER_OPEN,
     MARKER_CLOSE \o <<"\n">> \o MARKER_OPEN,
     <<"<","h","e","a","d",">","\n">>}

Regions ==
    {<<>>,
     <<"\n"," "," "," "," ","o","l","d"," ","t","e","x","t","\n"," "," "," "," ">>,
     <<"\n">> \o StylesheetLink(<<"/","b",".","c","s","s">>) \o <<"\n">> \o StylesheetLink(<<"/","a",".","c","s","s">>) \o <<"\n">>,
     StylesheetLink(<<"/","b",".","c","s","s">>) \o StylesheetLink(<<"/","a",".","c","s","s">>),
     <<"\n","<","l","i","n","k"," ","r","e","l","=","'","s","t","y","l","e","s","h","e","e","t","'"," ","h","r","e","f","=","'","/","a",".","c","s","s","'",">","\n">> \o StylesheetLink(<<"/","m","i","s","s","i","n","g",".","c","s","s">>)
        \o <<"\n">> \o StylesheetLink(<<"/","a",".","c","s","s">>) \o <<"\n">>,
     <<"\r","\n">> \o StylesheetLink(<<"/","b",".","c","s","s">>) \o <<"\r","\n">>}

Tails ==
    {MARKER_CLOSE,
     MARKER_CLOSE \o <<"\n","<","/","h","e","a","d",">","\n">>,
     <<"\n","<","/","h","e","a","d",">","\n">>}

Documents == {h \o r \o t : h \in Heads, r \in Regions, t \in Tails}

Call(op, arg, res, nth, wrote, returned) ==
    [op |-> op, arg |-> arg, res |-> res, nth |-> nth, wrote |-> wrote, returned |-> returned]

\* transform_html(&html) on the text of the file
TransformHtml ==
    /\ pc = "html"
    /\ ret' = Call("transform_html", html, transform_html(imports, html), 1, FALSE, "none")
    /\ UNCHANGED <<pc, root, base_url, stack, imports, html, calls>>

\* transform_html on the result of the previous transform_html
TransformAgain ==
    /\ pc = "html"
    /\ ret.op = "transform_html"
    /\ ret.nth = 1
    /\ ret.res.kind = "Some"
    /\ ret' = Call("transform_html", ret.res.val, transform_html(imports, ret.res.val), 2, FALSE, "none")
    /\ UNCHANGED <<pc, root, base_url, stack, imports, html, calls>>

\* ImportMap::update_html_file
UpdateHtmlFile ==
    /\ pc = "html"
    /\ calls < MaxCalls
    /\ LET updated == transform_html(imports, html)
           write == updated.kind = "Some" /\ updated.val # html
       IN /\ html' = IF write THEN updated.val ELSE html
          /\ ret' = Call("update_html_file", html, updated, calls + 1, write,
                         IF updated.kind = "Panic" THEN "panic"
                         ELSE IF write THEN "Ok(true)" ELSE "Ok(false)")
    /\ calls' = calls + 1
    /\ UNCHANGED <<pc, root, base_url, stack, imports>>

InitHtml ==
    /\ pc = "html"
    /\ root \in {"blank", "css", "example", "site"}
    /\ base_url = <<>>
    /\ stack = <<>>
    /\ imports = ScanOf(empty, Disk[root], base_url)
    /\ html \in Documents
    /\ ret = NoCall
    /\ calls = 0

NextHtml ==
    \/ TransformHtml
    \/ TransformAgain
    \/ UpdateHtmlFile

SpecHtml == InitHtml /\ [][NextHtml]_vars

---------------------------------------------------------------------------
(* Properties of the scanner *)

Entries(m) == {m[i] : i \in 1..Len(m)}
KeysAscending(m) == \A i \in 1..(Len(m) - 1) : StrLess(m[i][1], m[i + 1][1])

\* the rules of the filtering policy, one conjunct per rule
PassesFilter(path) ==
    LET name == file_name(path).val IN
    /\ extension(path).kind = "Some"
    /\ extension(path).val \in {<<"j","s">>, <<"m","j","s">>, <<"c","s","s">>}
    /\ ~(extension(path).val = <<"j","s">> /\ Len(components(path)) = 1)
    /\ ~Contains(name, <<".","d","e","v","e","l","o","p","m","e","n","t",".">>)
    /\ ~Contains(name, <<".","d","e","v",".">>)
    /\ name[1] # "_"
    /\ \A i \in 1..Len(components(path)) : components(path)[i] # <<"t","e","s","t","s">>
    /\ ~Contains(name, <<".","t","e","s","t",".">>)

\* C4: once a scan has finished, a scanned file has an entry in the import map
\* exactly when it passes every filter rule, and for the example file set
\* (the root "example") the map holds the one key for assets/app.js.
C4_FilterPolicy ==
    pc = "scanned" =>
        /\ \A f \in Disk[root] :
             (base_url \o <<"/">> \o f.path \in BTreeKeys(imports)) <=> PassesFilter(f.path)
        /\ root = "example" => BTreeKeys(imports) = {base_url \o <<"/","a","s","s","e","t","s","/","a","p","p",".","j","s">>}

C4_Witness ==
    /\ pc = "scanned"
    /\ root = "example"
    /\ base_url = <<"/","s","t","a","t","i","c">>
    /\ Len(imports) = 1

\* C5: for every entry (original URL, fingerprinted URL) of the import map,
\* strip_hash of the fingerprinted URL returns a path whose file name is the
\* file name of the original URL and whose parent is the parent of the original URL.
C5_StripHashRoundTrip ==
    \A e \in Entries(imports) :
        LET s == strip_hash(e[2]) IN
        /\ s.kind = "Some"
        /\ file_name(s.val) = file_name(e[1])
        /\ PathEq(parent(s.val).val, parent(e[1]).val)

C5_Witness ==
    /\ pc = "scanned"
    /\ \E e \in Entries(imports) :
        /\ e[1] = <<"/","s","t","a","t","i","c","/","a","s","s","e","t","s","/","v","e","n","d","o","r",".","m","i","n",".","j","s">>
        /\ strip_hash(e[2]) = Some(e[1])
    /\ \E e \in Entries(imports) :
        /\ e[1] = <<"/","s","t","a","t","i","c","/","a",".","c","s","s">>
        /\ strip_hash(e[2]) = Some(e[1])

\* the entries a scan of root r has to produce, whatever the order of traversal
ExpectedEntries(r, base) ==
    {<<OriginalUrl(f.path, base), HashedUrl(f.path, f.contents, base)>> :
        f \in {g \in Disk[r] : ~Skipped(g.path)}}

\* C7: whatever order the traversal took, a finished scan of a file set yields
\* the same import map: the entries of the accepted files, each key once,
\* in ascending lexicographic order of the keys.
C7_ScanOrderIndependent ==
    pc = "scanned" =>
        /\ Entries(imports) = ExpectedEntries(root, base_url)
        /\ KeysAscending(imports)
        /\ imports = ScanOf(empty, Disk[root], base_url)

C7_Witness ==
    /\ pc = "scanned"
    /\ root = "site"
    /\ Len(imports) = 5

---------------------------------------------------------------------------
(* Properties of the HTML transformer *)

\* where the marker pair of a document lies: the end of the first open marker,
\* and the start of the first close marker at or after that end
HasOpen(h) == Occurrences(h, MARKER_OPEN) # {}
AfterOpen(h) == SetMin(Occurrences(h, MARKER_OPEN)) + Len(MARKER_OPEN)
ClosesAfterOpen(h) == {j \in Occurrences(h, MARKER_CLOSE) : j >= AfterOpen(h)}
HasMarkerPair(h) == HasOpen(h) /\ ClosesAfterOpen(h) # {}
CloseStart(h) == SetMin(ClosesAfterOpen(h))

\* the text strictly between the markers
Between(h) == Slice(h, AfterOpen(h), CloseStart(h))

\* the text before the open marker on the marker's line
IndentOf(h) ==
    LET open == AfterOpen(h) - Len(MARKER_OPEN)
        breaks == {i \in 1..open : h[i] = "\n"}
    IN Slice(h, IF breaks = {} THEN 0 ELSE SetMax(breaks), open)

EndsWith(s, suffix) ==
    Len(s) >= Len(suffix) /\ Slice(s, Len(s) - Len(suffix), Len(s)) = suffix

IsTransform == ret.op = "transform_html"

\* C1: transform_html applied to its own result, with the same import map,
\* returns that result unchanged.
C1_Idempotent ==
    (IsTransform /\ ret.nth = 2) => ret.res = Some(ret.arg)

\* C2: a result of transform_html keeps the input from its start through the
\* end of the first open marker as a prefix, and the input from the start of
\* the first close marker after it to the end as a suffix, and the two do
\* not overlap in the result.
C2_OnlyBetweenMarkers ==
    (ret.op # "none" /\ ret.res.kind = "Some") =>
        /\ HasMarkerPair(ret.arg)
        /\ StartsWith(ret.res.val, Slice(ret.arg, 0, AfterOpen(ret.arg)))
        /\ EndsWith(ret.res.val, Slice(ret.arg, CloseStart(ret.arg), Len(ret.arg)))
        /\ Len(ret.res.val) >= AfterOpen(ret.arg) + (Len(ret.arg) - CloseStart(ret.arg))

C2_Witness ==
    /\ IsTransform
    /\ ret.nth = 1
    /\ imports # <<>>
    /\ ret.res.kind = "Some"
    /\ ret.res.val # ret.arg
    /\ AfterOpen(ret.arg) > Len(MARKER_OPEN)
    /\ CloseStart(ret.arg) + Len(MARKER_CLOSE) < Len(ret.arg)

\* C3: transform_html returns a result exactly when the document holds the
\* open marker and a close marker after the first open marker, and returns
\* nothing otherwise, whatever the import map; a close marker before the
\* open marker changes nothing.
C3_ResultIffMarkerPair ==
    IsTransform =>
        IF HasMarkerPair(ret.arg) THEN ret.res.kind = "Some" ELSE ret.res.kind = "None"

\* the stylesheet links of a text, as the offsets at which a link to url stands
LinkOffsets(text, url) ==
    Occurrences(text, StylesheetLink(url))
    \cup Occurrences(text, <<"<","l","i","n","k"," ","r","e","l","=","'","s","t","y","l","e","s","h","e","e","t","'"," ","h","r","e","f","=","'">> \o url \o <<"'",">">>)

\* the lines of the generated content of a result, their indentation removed
ContentLines(h, r) ==
    LET indent == IndentOf(h)
        body == Between(r)
        ls == Lines(Slice(body, 1, Len(body) - 1 - Len(indent)))
    IN [i \in 1..Len(ls) |->
          IF StartsWith(ls[i], indent) THEN Slice(ls[i], Len(indent), Len(ls[i])) ELSE ls[i]]

StylesheetLines(ls) == SelectSeq(ls, LAMBDA l : StartsWith(l, <<"<","l","i","n","k"," ","r","e","l","=","\"","s","t","y","l","e","s","h","e","e","t","\""," ","h","r","e","f","=","\"">>))

\* C6: the stylesheet links of a result are one link per original URL of the
\* import map that a stylesheet link of the input's marker region refers to,
\* carrying its fingerprinted URL, in the order in which the links first
\* stand in the input; other hrefs produce no link.
C6_StylesheetOrder ==
    (IsTransform /\ ret.res.kind = "Some" /\ imports # <<>>) =>
        LET region == Between(ret.arg)
            linked == {e \in Entries(imports) : LinkOffsets(region, e[1]) # {}}
            first == [e \in linked |-> SetMin(LinkOffsets(region, e[1]))]
            order == Ascending({first[e] : e \in linked})
            expected == [i \in 1..Len(order) |->
                           StylesheetLink((CHOOSE e \in linked : first[e] = order[i])[2])]
        IN StylesheetLines(ContentLines(ret.arg, ret.res.val)) = expected

\* C8: update_html_file writes the file exactly when transform_html returns a
\* result that differs from the file's text, returns true exactly when it
\* wrote, otherwise leaves the file as it is and reports false; a second
\* call in a row with the same import map never writes.
C8_UpdateWritesIffChanged ==
    ret.op = "update_html_file" =>
        /\ ret.wrote <=> (ret.res.kind = "Some" /\ ret.res.val # ret.arg)
        /\ ret.wrote => (html = ret.res.val /\ ret.returned = "Ok(true)")
        /\ ~ret.wrote => (html = ret.arg /\ ret.returned = "Ok(false)")
        /\ ret.nth >= 2 => ~ret.wrote

IsWhitespace(c) == c \in {" ", "\t", "\n", "\r"}

\* C9: with an empty import map, transform_html of a document that holds the
\* marker pair returns a result whose text strictly between the markers is
\* whitespace only: a line break, an empty line, and the indentation.
C9_EmptyMapClears ==
    (IsTransform /\ imports = <<>> /\ HasMarkerPair(ret.arg)) =>
        /\ ret.res.kind = "Some"
        /\ Between(ret.res.val) = <<"\n","\n">> \o IndentOf(ret.arg)
        /\ \A i \in 1..Len(Between(ret.res.val)) : IsWhitespace(Between(ret.res.val)[i])

ScriptEntries(m) == SelectSeq(m, LAMBDA e : extension(e[1]) \in {Some(<<"j","s">>), Some(<<"m","j","s">>)})
StylesheetEntries(m) == SelectSeq(m, LAMBDA e : extension(e[1]) = Some(<<"c","s","s">>))

\* the sections of the generated content of a result: the leading stylesheet
\* links, the trailing modulepreload links (one per script/module entry), and
\* what lies between them
Sections(h, r) ==
    LET ls == ContentLines(h, r)
        nS == Len(StylesheetLines(ls))
        nP == Len(ScriptEntries(imports))
    IN [lines |-> ls,
        stylesheets |-> SubSeq(ls, 1, nS),
        script |-> SubSeq(ls, nS + 1, Len(ls) - nP),
        preloads |-> SubSeq(ls, Len(ls) - nP + 1, Len(ls))]

SectionsInOrder(h, r) ==
    LET sec == Sections(h, r)
        js == ScriptEntries(imports)
        css == StylesheetEntries(imports)
    IN /\ \A i \in 1..Len(sec.lines) : sec.lines[i] # <<>>
       /\ sec.lines = sec.stylesheets \o sec.script \o sec.preloads
       /\ \A i \in 1..Len(sec.stylesheets) :
            \E e \in Entries(css) : sec.stylesheets[i] = StylesheetLink(e[2])
       /\ (\A e \in Entries(css) : ~Contains(Between(h), e[1])) => sec.stylesheets = <<>>
       /\ sec.preloads = [i \in 1..Len(js) |-> ModulepreloadLink(js[i][2])]
       /\ KeysAscending(js)
       /\ \A i \in 1..Len(sec.script) : ~StartsWith(sec.script[i], <<"<","l","i","n","k">>)

HasScriptBlock(h, r) ==
    LET sec == Sections(h, r) IN
    /\ Len(sec.script) >= 2
    /\ sec.script[1] = <<"<","s","c","r","i","p","t"," ","t","y","p","e","=","\"","i","m","p","o","r","t","m","a","p","\"",">">>
    /\ sec.script[Len(sec.script)] = <<"<","/","s","c","r","i","p","t",">">>

\* C10 (as stated): for a non-empty import map the generated content is the
\* stylesheet links, the importmap script block and the modulepreload links
\* in this order, joined by single line breaks, a section without entries
\* left out: no stylesheet link when no href survives, and neither script
\* block nor modulepreload link when the map has no script/module entry.
C10_SectionsOmittedWhenEmpty ==
    (IsTransform /\ imports # <<>> /\ ret.res.kind = "Some") =>
        /\ SectionsInOrder(ret.arg, ret.res.val)
        /\ IF ScriptEntries(imports) = <<>>
           THEN Sections(ret.arg, ret.res.val).script = <<>>
           ELSE HasScriptBlock(ret.arg, ret.res.val)

\* C10 (amended): for a non-empty import map the generated content is the
\* stylesheet links, the importmap script block and the modulepreload links
\* in this order, joined by single line breaks; the stylesheet links are
\* left out when no href survives and the modulepreload links when the map
\* has no script/module entry, while the script block is always there.
C10_ScriptBlockAlways ==
    (IsTransform /\ imports # <<>> /\ ret.res.kind = "Some") =>
        /\ SectionsInOrder(ret.arg, ret.res.val)
        /\ HasScriptBlock(ret.arg, ret.res.val)

C10_Witness ==
    /\ IsTransform
    /\ ret.res.kind = "Some"
    /\ imports # <<>>
    /\ ScriptEntries(imports) = <<>>
    /\ Len(Sections(ret.arg, ret.res.val).stylesheets) = 2
    /\ Sections(ret.arg, ret.res.val).preloads = <<>>
    /\ HasScriptBlock(ret.arg, ret.res.val)

=============================================================================
